---- MODULE Spec2Model ----
(***************************************************************************)
(* mewbot-io-file-storage: FileStorageOutput.output() and the asynchronous *)
(* file lock of portable_locking.py, over a small POSIX file tree.         *)
(*                                                                         *)
(* A path is a sequence of names from the filesystem root (<<>>).  The     *)
(* tree is the set of directories `dirs`, the directory entries `files`    *)
(* (path -> inode) and the inode contents `data` (a sequence of bytes per  *)
(* inode).  An unlinked inode stays in `data` for the handles still open   *)
(* on it.  The model has no symbolic links.                                 *)
(***************************************************************************)
EXTENDS Integers, Sequences, FiniteSets, Bags, TLC

VARIABLES config, zombies, _path, dirs, files, data, ro, req, hnd, ext, calls

vars == <<config, zombies, _path, dirs, files, data, ro, req, hnd, ext, calls>>

\* ------------------------------------------------------------------ bounds
\* output() calls issued in one behaviour
MaxCalls == 2

\* request slots: output() calls the host has in flight at once
Slots == {1, 2}

\* direct users of AsyncFileLock, each with a handle of its own
Exts == {3, 4}

\* threads of the event loop's default executor, which runs every aiofiles
\* call and every flock() call
PoolSize == 2

Owners == Slots \cup Exts

\* ------------------------------------------------------------------- paths
Root == <<>>
T == <<"T">>
U == <<"U">>

Parent(p) == IF p = <<>> THEN <<>> ELSE SubSeq(p, 1, Len(p) - 1)

Prefix(p, k) == SubSeq(p, 1, k)

RECURSIVE resolve_from(_, _)
resolve_from(acc, segs) ==
    IF segs = <<>> THEN acc
    ELSE LET s == Head(segs) IN
         resolve_from(IF s = ".." THEN Parent(acc) ELSE Append(acc, s), Tail(segs))

\* pathlib.Path.resolve().absolute(): collapse ".." from the root
resolve(p) == resolve_from(<<>>, p)

\* a join that appends the argument to the base whether it is absolute or not
joinpath_append(base, p) == base \o p.segs

\* pathlib.Path.joinpath: an absolute argument replaces the base
joinpath(base, p) == IF p.abs THEN p.segs ELSE base \o p.segs

\* is_relative_to comparing the depth of the two paths and not their components
is_relative_to_depth(p, b) == Len(b) <= Len(p)

\* str(path) of an absolute path
RECURSIVE PathStr(_)
PathStr(p) ==
    IF p = <<>> THEN "" ELSE PathStr(SubSeq(p, 1, Len(p) - 1)) \o "/" \o p[Len(p)]

\* str.startswith
startswith(a, b) == Len(b) <= Len(a) /\ SubSeq(a, 1, Len(b)) = b

\* confinement by comparing the two paths as strings
is_relative_to_startswith(p, b) == startswith(PathStr(p), PathStr(b))

\* pathlib.PurePath.is_relative_to: comparison by whole components
is_relative_to(p, b) == Len(b) <= Len(p) /\ Prefix(p, Len(b)) = b

\* ------------------------------------------------------------- file contents
\* str.encode("utf-8") for code points below 2048
RECURSIVE Encode(_)
Encode(s) ==
    IF s = <<>> THEN <<>>
    ELSE LET c == Head(s) IN
         (IF c < 128 THEN <<c>> ELSE <<192 + (c \div 64), 128 + (c % 64)>>)
             \o Encode(Tail(s))

\* the bytes a text-mode or binary-mode handle puts in the file
ToBytes(c) == IF c.rep = "str" THEN Encode(c.val) ELSE c.val

\* write(2) of b through a handle at offset 0, or at the end under O_APPEND
WriteAt(old, b, app) ==
    IF app THEN old \o b
    ELSE b \o (IF Len(old) > Len(b) THEN SubSeq(old, Len(b) + 1, Len(old)) ELSE <<>>)

\* --------------------------------------------------------- POSIX operations
\* the error of resolving the directory that is to hold p
LookupErr(p, d, f) ==
    LET bad == {k \in 1..(Len(p) - 1) : Prefix(p, k) \notin d} IN
    IF bad = {} THEN "ok"
    ELSE LET k == CHOOSE x \in bad : \A y \in bad : x <= y IN
         IF Prefix(p, k) \in DOMAIN f THEN "NotADirectoryError" ELSE "FileNotFoundError"

os_mkdir_err(p, d, f, r) ==
    IF LookupErr(p, d, f) # "ok" THEN LookupErr(p, d, f)
    ELSE IF p \in d \/ p \in DOMAIN f THEN "FileExistsError"
    ELSE IF Parent(p) \in r THEN "PermissionError"
    ELSE "ok"

\* a mkdir call that leaves parents at its default
parents_unset == FALSE

\* a mkdir call that leaves exist_ok at its default
exist_ok_unset == FALSE

\* the parents and exist_ok arguments of the two mkdir calls
parents == TRUE

exist_ok == TRUE

\* pathlib.Path.mkdir(parents, exist_ok): the directories afterwards and the
\* error raised, if any
RECURSIVE mkdir(_, _, _, _)
mkdir(p, d, f, r) ==
    LET e == os_mkdir_err(p, d, f, r) IN
    IF e = "ok" THEN [dirs |-> d \cup {p}, err |-> "ok"]
    ELSE IF e = "FileNotFoundError" THEN
        IF ~parents \/ p = Root THEN [dirs |-> d, err |-> e]
        ELSE
        LET up == mkdir(Parent(p), d, f, r) IN
        IF up.err # "ok" THEN up
        ELSE LET e2 == os_mkdir_err(p, up.dirs, f, r) IN
             IF e2 = "ok" THEN [dirs |-> up.dirs \cup {p}, err |-> "ok"]
             ELSE IF e2 # "FileNotFoundError" /\ exist_ok /\ p \in up.dirs
                  THEN [dirs |-> up.dirs, err |-> "ok"]
             ELSE [dirs |-> up.dirs, err |-> e2]
    ELSE IF exist_ok /\ p \in d THEN [dirs |-> d, err |-> "ok"]
    ELSE [dirs |-> d, err |-> e]

\* pathlib.Path.unlink
unlink_err(p, d, f, r) ==
    IF LookupErr(p, d, f) # "ok" THEN LookupErr(p, d, f)
    ELSE IF p \notin d /\ p \notin DOMAIN f THEN "FileNotFoundError"
    ELSE IF Parent(p) \in r THEN "PermissionError"
    ELSE IF p \in d THEN "IsADirectoryError"
    ELSE "ok"

\* open(p, mode) for mode w, x or a
open_err(p, mode, d, f, r) ==
    IF LookupErr(p, d, f) # "ok" THEN LookupErr(p, d, f)
    ELSE IF p \in d THEN (IF mode = "x" THEN "FileExistsError" ELSE "IsADirectoryError")
    ELSE IF p \in DOMAIN f THEN (IF mode = "x" THEN "FileExistsError" ELSE "ok")
    ELSE IF Parent(p) \in r THEN "PermissionError"
    ELSE "ok"

\* ------------------------------------------------------------------ events
\* event.path values: relative and absolute, inside and outside the base
ReqPaths ==
    { [abs |-> FALSE, segs |-> <<"a">>],
      [abs |-> FALSE, segs |-> <<"a", "b">>],
      [abs |-> FALSE, segs |-> <<>>],
      [abs |-> FALSE, segs |-> <<"..", "U">>],
      [abs |-> TRUE,  segs |-> <<"T", "a">>],
      [abs |-> TRUE,  segs |-> <<"U">>] }

\* file_contents values: a str holding a non-ASCII character, and a bytes
Contents ==
    { [rep |-> "str",   val |-> <<65, 233>>],
      [rep |-> "bytes", val |-> <<66>>] }

NoContents == [rep |-> "none", val |-> <<>>]

\* OutputEvent is an event outside the FSOutputEvent family
PlainEvents ==
    { [kind |-> k, path |-> p, file_contents |-> NoContents,
       append |-> FALSE, may_overwrite |-> TRUE] :
        k \in {"CreateDirectoryOutputEvent", "DeleteFileOutputEvent", "FSOutputEvent"},
        p \in ReqPaths }
    \cup
    { [kind |-> "OutputEvent", path |-> [abs |-> FALSE, segs |-> <<>>],
       file_contents |-> NoContents, append |-> FALSE, may_overwrite |-> TRUE] }

WriteEvents ==
    { [kind |-> "WriteToFileOutputEvent", path |-> p, file_contents |-> c,
       append |-> a, may_overwrite |-> o] :
        p \in ReqPaths, c \in Contents, a \in BOOLEAN, o \in BOOLEAN }

Events == PlainEvents \cup WriteEvents

NoEvent ==
    [kind |-> "none", path |-> [abs |-> FALSE, segs |-> <<>>],
     file_contents |-> NoContents, append |-> FALSE, may_overwrite |-> TRUE]

\* the first test of output() made against OutputEvent, which every event is
IsOutputEvent(ev) == TRUE

\* isinstance(event, FSOutputEvent)
IsFSOutputEvent(ev) == ev.kind # "OutputEvent"

\* ------------------------------------------------------------ log templates
MsgUnexpected == "Received unexpected event type %s"
MsgNoBase == "Cannot output - base path '%s' does not exist"
MsgOutside == "Refusing to write to %s, as it would result in a file outside of %s"
MsgMkdirPerm == "Unable to create directory %s - PermissionError"
MsgWriteExists == "Unable to write file %s - FileExistsError"
MsgWritePerm == "Unable to write file %s - PermissionError"
MsgDeleteMissing == "Unable to delete %s - FileNotFoundError"
MsgDeletePerm == "Unable to delete %s - PermissionError"
MsgDeleteIsDir == "Unable to delete %s - IsADirectoryError"

Warning(m) == [level |-> "WARNING", msg |-> m]
Error(m) == [level |-> "ERROR", msg |-> m]

\* ------------------------------------------------------------------- state
\* what a path names: a regular file and its content, a directory, or nothing
NoEntry == [is |-> "absent", val |-> <<>>]

\* one output() call: its position, the base and target it computed, what the
\* target named when the call was made, what it logged, what it changed in the
\* tree, and how it ended (result is "True", "False" or the name of the
\* exception that left output())
NoReq ==
    [pc |-> "idle", ev |-> NoEvent, base |-> <<>>, target |-> <<>>, mode |-> "-",
     exc |-> "none", result |-> "none", logs |-> <<>>, touched |-> {},
     before |-> NoEntry]

\* an open file handle: its inode, O_APPEND, the unflushed buffer, the flock
\* it holds and whether an executor thread is inside flock() for it
NoHandle ==
    [open |-> FALSE, ino |-> 0, app |-> FALSE, bin |-> FALSE, buf |-> <<>>,
     lock |-> "none", pending |-> FALSE, cls |-> "-", timeout |-> 0]

\* the executor threads inside a call that has not returned: the lock calls of
\* open handles, and the flock() calls left behind by handles since closed
Busy == Cardinality({p \in Owners : hnd[p].pending}) + BagCardinality(zombies)

\* run_in_executor finds a thread for the call
ThreadFree == Busy < PoolSize

Touch(op, p) == [op |-> op, path |-> p]

\* os.stat of p with the content of a regular file
Entry(p) ==
    IF p \in DOMAIN files THEN [is |-> "file", val |-> data[files[p]]]
    ELSE IF p \in dirs THEN [is |-> "dir", val |-> <<>>]
    ELSE NoEntry

\* path_exists without the is_dir() test
path_exists_any == _path \in dirs \/ _path \in DOMAIN files

\* FileStorageOutput.path_exists: exists() and is_dir()
path_exists == (_path \in dirs \/ _path \in DOMAIN files) /\ _path \in dirs

\* ---------------------------------------------------------- output() steps
\* the call in slot r ends: it returned True or False, or exc left output()
Finish(rec, result, logs, touched) ==
    [rec EXCEPT !.pc = "done", !.result = result,
                !.logs = rec.logs \o logs, !.touched = rec.touched \cup touched]

\* _process_directory_create_event without its FileExistsError clause
mkdir_except_perm_only(rec, e, touched) ==
    IF e = "PermissionError" THEN Finish(rec, "False", <<Warning(MsgMkdirPerm)>>, touched)
    ELSE Finish(rec, e, <<>>, touched)

\* the except clauses of _process_directory_create_event
mkdir_except(rec, e, touched) ==
    IF e = "PermissionError" THEN Finish(rec, "False", <<Warning(MsgMkdirPerm)>>, touched)
    ELSE IF e = "FileExistsError" THEN Finish(rec, "False", <<>>, touched)
    ELSE Finish(rec, e, <<>>, touched)

\* a CreateDirectory that makes the directory afresh: what an existing
\* directory of that name held is gone
_process_directory_create_event_afresh(r, rec, path) ==
    LET m == mkdir(path, dirs, files, ro)
        made == {Touch("mkdir", q) : q \in m.dirs \ dirs}
        below == {q \in DOMAIN files : Len(q) > Len(path) /\ Prefix(q, Len(path)) = path} IN
    /\ dirs' = m.dirs
    /\ files' = IF m.err = "ok" THEN [q \in DOMAIN files \ below |-> files[q]] ELSE files
    /\ req' = [req EXCEPT ![r] =
          IF m.err = "ok" THEN Finish(rec, "True", <<>>, made)
          ELSE mkdir_except(rec, m.err, made)]
    /\ UNCHANGED <<data, hnd>>

\* _process_directory_create_event
_process_directory_create_event(r, rec, path) ==
    LET m == mkdir(path, dirs, files, ro)
        made == {Touch("mkdir", q) : q \in m.dirs \ dirs} IN
    /\ dirs' = m.dirs
    /\ req' = [req EXCEPT ![r] =
          IF m.err = "ok" THEN Finish(rec, "True", <<>>, made)
          ELSE mkdir_except(rec, m.err, made)]
    /\ UNCHANGED <<files, data, hnd>>

\* _process_delete_file_event without its IsADirectoryError clause
delete_except_two(rec, e) ==
    IF e = "FileNotFoundError" THEN Finish(rec, "False", <<Warning(MsgDeleteMissing)>>, {})
    ELSE IF e = "PermissionError" THEN Finish(rec, "False", <<Warning(MsgDeletePerm)>>, {})
    ELSE Finish(rec, e, <<>>, {})

\* _process_delete_file_event without its FileNotFoundError clause
delete_except_no_missing(rec, e) ==
    IF e = "PermissionError" THEN Finish(rec, "False", <<Warning(MsgDeletePerm)>>, {})
    ELSE IF e = "IsADirectoryError"
        THEN Finish(rec, "False", <<Warning(MsgDeleteIsDir)>>, {})
    ELSE Finish(rec, e, <<>>, {})

\* a bare except clause that reports every failed unlink as done
delete_except_swallow(rec, e) == Finish(rec, "True", <<>>, {})

\* except clauses of _process_delete_file_event that log one message for the
\* permission failure and the directory target
delete_except_one_message(rec, e) ==
    IF e = "FileNotFoundError" THEN Finish(rec, "False", <<Warning(MsgDeleteMissing)>>, {})
    ELSE IF e \in {"PermissionError", "IsADirectoryError"}
        THEN Finish(rec, "False", <<Warning(MsgDeletePerm)>>, {})
    ELSE Finish(rec, e, <<>>, {})

\* the except clauses of _process_delete_file_event
delete_except(rec, e) ==
    IF e = "FileNotFoundError" THEN Finish(rec, "False", <<Warning(MsgDeleteMissing)>>, {})
    ELSE IF e = "PermissionError" THEN Finish(rec, "False", <<Warning(MsgDeletePerm)>>, {})
    ELSE IF e = "IsADirectoryError"
        THEN Finish(rec, "False", <<Warning(MsgDeleteIsDir)>>, {})
    ELSE Finish(rec, e, <<>>, {})

\* _process_delete_file_event
_process_delete_file_event(r, rec, path) ==
    LET e == unlink_err(path, dirs, files, ro) IN
    /\ files' = IF e = "ok" THEN [q \in DOMAIN files \ {path} |-> files[q]] ELSE files
    /\ req' = [req EXCEPT ![r] =
          IF e = "ok" THEN Finish(rec, "True", <<>>, {Touch("unlink", path)})
          ELSE delete_except(rec, e)]
    /\ UNCHANGED <<dirs, data, hnd>>

\* mode selection that tests may_overwrite before append
select_mode_exclusive_first(ev) ==
    IF ~ev.may_overwrite THEN "x" ELSE IF ev.append THEN "a" ELSE "w"

\* mode selection without the exclusive-create branch
select_mode_no_exclusive(ev) == IF ev.append THEN "a" ELSE "w"

\* the open mode _process_file_write_event selects
select_mode(ev) ==
    IF ev.append THEN "a" ELSE IF ev.may_overwrite THEN "w" ELSE "x"

\* the mode handed on without the binary suffix
open_mode_text(ev) == select_mode(ev)

\* the mode handed to aiofiles.open: _do_file_write_bytes adds the binary suffix
open_mode(ev) ==
    IF ev.file_contents.rep = "str" THEN select_mode(ev) ELSE select_mode(ev) \o "b"

IsBinary(mode) == mode \in {"wb", "xb", "ab"}

BaseMode(mode) ==
    IF mode \in {"w", "wb"} THEN "w" ELSE IF mode \in {"x", "xb"} THEN "x" ELSE "a"

\* except clauses of _process_file_write_event that also take IsADirectoryError
write_except_isdir(rec, e, touched) ==
    IF e = "FileExistsError" THEN Finish(rec, "False", <<Warning(MsgWriteExists)>>, touched)
    ELSE IF e \in {"PermissionError", "IsADirectoryError"}
        THEN Finish(rec, "False", <<Warning(MsgWritePerm)>>, touched)
    ELSE Finish(rec, e, <<>>, touched)

\* a bare except clause that reports every failed write as a False return
write_except_swallow(rec, e, touched) ==
    Finish(rec, "False", <<Warning(MsgWritePerm)>>, touched)

\* the except clauses of _process_file_write_event
write_except(rec, e, touched) ==
    IF e = "FileExistsError" THEN Finish(rec, "False", <<Warning(MsgWriteExists)>>, touched)
    ELSE IF e = "PermissionError"
        THEN Finish(rec, "False", <<Warning(MsgWritePerm)>>, touched)
    ELSE Finish(rec, e, <<>>, touched)

\* _process_file_write_event without the mkdir of the parent directory
_process_file_write_event_no_mkdir(r, rec, path, ev) ==
    /\ req' = [req EXCEPT ![r] = [rec EXCEPT !.pc = "open", !.mode = open_mode(ev)]]
    /\ UNCHANGED <<dirs, files, data, hnd>>

\* _process_file_write_event up to its first suspension: the mode, the parent
\* directories, and the call to aiofiles.open handed to the executor
_process_file_write_event(r, rec, path, ev) ==
    LET m == mkdir(Parent(path), dirs, files, ro)
        made == {Touch("mkdir", q) : q \in m.dirs \ dirs} IN
    /\ dirs' = m.dirs
    /\ req' = [req EXCEPT ![r] =
          IF m.err = "ok"
          THEN [rec EXCEPT !.pc = "open", !.mode = open_mode(ev),
                           !.touched = rec.touched \cup made]
          ELSE write_except(rec, m.err, made)]
    /\ UNCHANGED <<files, data, hnd>>

\* an output that works under the directory T whatever its path was set to
CurrentBase_initial == T

\* self._path as output() reads it
CurrentBase == _path

\* the two checks made with the confinement of the path first
early_checks_confinement_first(ev) ==
    IF ~is_relative_to(resolve(joinpath(CurrentBase, ev.path)), resolve(CurrentBase))
    THEN "outside"
    ELSE IF ~path_exists THEN "base"
    ELSE "pass"

\* the two checks output() makes before it dispatches, in their order: the
\* base exists, and the resolved path is relative to the resolved base
early_checks(ev) ==
    IF ~path_exists THEN "base"
    ELSE IF ~is_relative_to(resolve(joinpath(CurrentBase, ev.path)), resolve(CurrentBase))
    THEN "outside"
    ELSE "pass"

\* FileStorageOutput.output, from the call to its first suspension or its return
output(r, ev) ==
    /\ config._output
    /\ req[r].pc \in {"idle", "done"}
    /\ calls < MaxCalls
    /\ calls' = calls + 1
    /\ LET rec0 == [NoReq EXCEPT !.ev = ev, !.base = CurrentBase] IN
       IF ~IsFSOutputEvent(ev) THEN
           /\ req' = [req EXCEPT ![r] = Finish(rec0, "False", <<Warning(MsgUnexpected)>>, {})]
           /\ UNCHANGED <<dirs, files, data, hnd>>
       ELSE IF early_checks(ev) = "base" THEN
           /\ req' = [req EXCEPT ![r] = Finish(rec0, "False", <<Warning(MsgNoBase)>>, {})]
           /\ UNCHANGED <<dirs, files, data, hnd>>
       ELSE
           LET path == resolve(joinpath(CurrentBase, ev.path))
               rec == [rec0 EXCEPT !.target = path, !.before = Entry(path)] IN
           IF early_checks(ev) = "outside" THEN
               /\ req' = [req EXCEPT ![r] = Finish(rec, "False", <<Error(MsgOutside)>>, {})]
               /\ UNCHANGED <<dirs, files, data, hnd>>
           ELSE IF ev.kind = "CreateDirectoryOutputEvent" THEN
               _process_directory_create_event(r, rec, path)
           ELSE IF ev.kind = "WriteToFileOutputEvent" THEN
               _process_file_write_event(r, rec, path, ev)
           ELSE IF ev.kind = "DeleteFileOutputEvent" THEN
               _process_delete_file_event(r, rec, path)
           ELSE
               /\ req' = [req EXCEPT ![r] =
                             Finish(rec, "False", <<Warning(MsgUnexpected)>>, {})]
               /\ UNCHANGED <<dirs, files, data, hnd>>
    /\ UNCHANGED <<config, zombies, _path, ro, ext>>

\* AsyncFileLock as portable_locking binds it on a host where fcntl imports
AsyncFileLock == "Fcntl"

\* the default of the timeout parameter of both lock classes, in seconds
DefaultTimeout == 5

\* the timeout of the callers that pass one: they pass half a second, which
\* stands here as the whole seconds it is under
ShortTimeout == 1

\* fcntl.LOCK_EX: PortaLockerAsyncFileLock.acquire hands it to
\* portalocker.Lock.acquire, whose first parameter is its timeout in seconds
LOCK_EX == 2

\* open() that truncates in no mode
O_TRUNC_never(m) == FALSE

\* open() passes O_TRUNC for mode w alone
O_TRUNC(m) == m = "w"

\* a write that joins the event's path to the base again when it opens the file
open_target_rejoined(rec) == resolve(joinpath(_path, rec.ev.path))

\* the path _do_file_write_str and _do_file_write_bytes open: the one
\* output() resolved and handed down
open_target(rec) == rec.target

\* aiofiles.open(path, mode) in the executor, and on success the entry into
\* AsyncFileLock.acquire, which hands flock() to the executor
aiofiles_open(r) ==
    LET rec == req[r]
        path == open_target(rec)
        m == BaseMode(rec.mode)
        e == open_err(path, m, dirs, files, ro) IN
    /\ rec.pc = "open"
    /\ ThreadFree
    /\ IF e # "ok" THEN
           /\ req' = [req EXCEPT ![r] = write_except(rec, e, {})]
           /\ UNCHANGED <<files, data, hnd>>
       ELSE
           LET isnew == path \notin DOMAIN files
               ino == IF isnew THEN Len(data) + 1 ELSE files[path]
               cut == ~isnew /\ O_TRUNC(m) /\ data[ino] # <<>>
               did == (IF isnew THEN {Touch("create", path)} ELSE {})
                      \cup (IF cut THEN {Touch("truncate", path)} ELSE {}) IN
           /\ files' = IF isnew
                        THEN [q \in DOMAIN files \cup {path} |->
                                 IF q = path THEN ino ELSE files[q]]
                        ELSE files
           /\ data' = IF isnew THEN Append(data, <<>>)
                      ELSE IF O_TRUNC(m) THEN [data EXCEPT ![ino] = <<>>]
                      ELSE data
           /\ hnd' = [hnd EXCEPT ![r] =
                 [open |-> TRUE, ino |-> ino, app |-> (m = "a"),
                  bin |-> IsBinary(rec.mode), buf |-> <<>>,
                  lock |-> "none", pending |-> TRUE,
                  cls |-> AsyncFileLock, timeout |-> DefaultTimeout]]
           /\ req' = [req EXCEPT ![r] =
                 [rec EXCEPT !.pc = "acquire", !.touched = rec.touched \cup did]]
    /\ UNCHANGED <<config, zombies, _path, dirs, ro, ext, calls>>

\* ---------------------------------------------------------- AsyncFileLock
\* acquire asking flock for a shared lock
AcquireFlagShared == "LOCK_SH"

\* the operation FcntlAsyncFileLock.acquire passes to flock
AcquireFlag == "LOCK_EX"

\* flock(2): an exclusive lock needs no other open file description of the
\* inode to hold a lock; a shared lock needs none to hold an exclusive one
CanGrant(p, flag) ==
    \A q \in Owners \ {p} :
        (hnd[q].open /\ hnd[q].ino = hnd[p].ino) =>
            IF flag = "LOCK_EX" THEN hnd[q].lock = "none" ELSE hnd[q].lock # "LOCK_EX"

\* the executor thread's flock() call returns with the lock
flock_returns(p) ==
    /\ hnd[p].open
    /\ hnd[p].pending
    /\ CanGrant(p, AcquireFlag)
    /\ hnd' = [hnd EXCEPT ![p].lock = AcquireFlag, ![p].pending = FALSE]
    /\ UNCHANGED <<config, zombies, _path, dirs, files, data, ro, req, ext, calls>>

\* where the owner of a handle stands
PcOf(p) == IF p \in Slots THEN req[p].pc ELSE ext[p]

\* acquire() returns: wait_for saw the executor future complete
acquire_returns(p) ==
    /\ PcOf(p) = "acquire"
    /\ ~hnd[p].pending
    /\ IF p \in Slots
       THEN req' = [req EXCEPT ![p].pc = "write"] /\ UNCHANGED ext
       ELSE ext' = [ext EXCEPT ![p] = "held"] /\ UNCHANGED req
    /\ UNCHANGED <<config, zombies, _path, dirs, files, data, ro, hnd, calls>>

\* wait_for gives up after _timeout seconds with the lock held elsewhere all
\* that time: acquire() raises TimeoutError, and the executor thread stays
\* inside flock(), or inside portalocker's retry loop when that runs longer
acquire_timeout(p) ==
    /\ PcOf(p) = "acquire"
    /\ hnd[p].pending
    /\ ~CanGrant(p, AcquireFlag)
    /\ hnd[p].cls = "PortaLocker" => hnd[p].timeout < LOCK_EX
    /\ IF p \in Slots
       THEN req' = [req EXCEPT ![p].pc = "unwind", ![p].exc = "TimeoutError"]
            /\ UNCHANGED ext
       ELSE ext' = [ext EXCEPT ![p] = "timeout"] /\ UNCHANGED req
    /\ UNCHANGED <<config, zombies, _path, dirs, files, data, ro, hnd, calls>>

\* portalocker.Lock.acquire, which retries a non-blocking lock, gives up after
\* the LOCK_EX seconds it was handed: it raises LockException, which wait_for
\* passes on when it is still waiting, and it has closed the handle it was
\* given or left it open, as the portalocker release at hand does
portalocker_gives_up(u, closes) ==
    /\ hnd[u].cls = "PortaLocker"
    /\ hnd[u].open
    /\ hnd[u].pending
    /\ ~CanGrant(u, AcquireFlag)
    /\ ext[u] = "acquire" => hnd[u].timeout >= LOCK_EX
    /\ hnd' = [hnd EXCEPT ![u] = IF closes THEN NoHandle ELSE [@ EXCEPT !.pending = FALSE]]
    /\ ext' = [ext EXCEPT ![u] = IF @ = "acquire" THEN "LockException" ELSE @]
    /\ UNCHANGED <<config, zombies, _path, dirs, files, data, ro, req, calls>>

\* the task awaiting a direct acquire() is cancelled
acquire_cancelled(u) ==
    /\ ext[u] = "acquire"
    /\ hnd[u].pending
    /\ ext' = [ext EXCEPT ![u] = "cancelled"]
    /\ UNCHANGED <<config, zombies, _path, dirs, files, data, ro, req, hnd, calls>>

\* a release() that leaves the lock on the handle
release_lock_keeps(h) == h

\* release(): flock(LOCK_UN) on the handle
release_lock(h) == [h EXCEPT !.lock = "none"]

\* FileHandlePortalocker.release, which is portalocker.Lock.release: unlock
\* the handle the lock was given, then close it
portalocker_release(h) == NoHandle

\* the flock() calls a closed handle leaves behind in the executor: close()
\* does not wake a thread blocked in flock()
LeftBehind(h) ==
    IF h.open /\ h.pending /\ h.cls = "Fcntl" THEN zombies (+) SetToBag({h.ino}) ELSE zombies

\* the flock() calls of closed handles that stay blocked with the handles as
\* in h: when a file is unlocked the kernel wakes the calls blocked on it, and
\* the lock such a call gets goes away with the last reference to its open
\* file description, so the thread is back in the pool
Blocked(z, h) ==
    LET held == {i \in BagToSet(z) :
                    \E q \in Owners : h[q].open /\ h[q].ino = i /\ h[q].lock # "none"} IN
    [i \in held |-> z[i]]

\* close(2) of the handle: the buffer is flushed, and the open file description
\* goes away with its lock and with any flock() call still waiting on it
Flushed(h) ==
    IF h.buf = <<>> THEN data
    ELSE [data EXCEPT ![h.ino] = WriteAt(data[h.ino], h.buf, h.app)]

\* await outfile.write(contents): the bytes enter the handle's buffer, and
\* reach the file now (flush = TRUE) or when the handle is closed
outfile_write(r, flush) ==
    LET rec == req[r]
        h == hnd[r]
        c == rec.ev.file_contents
        b == IF h.bin THEN c.val ELSE Encode(c.val)
        h1 == [h EXCEPT !.buf = h.buf \o b] IN
    /\ rec.pc = "write"
    /\ ThreadFree
    /\ IF h.bin # (c.rep = "bytes") THEN
           \* a text handle takes no bytes and a binary handle no str
           /\ req' = [req EXCEPT ![r].pc = "release", ![r].exc = "TypeError"]
           /\ UNCHANGED <<data, hnd>>
       ELSE
           /\ data' = IF flush THEN Flushed(h1) ELSE data
           /\ hnd' = [hnd EXCEPT ![r] = IF flush THEN [h1 EXCEPT !.buf = <<>>] ELSE h1]
           /\ req' = [req EXCEPT ![r].pc = "release",
                                 ![r].touched = @ \cup {Touch("write", rec.target)}]
    /\ UNCHANGED <<config, zombies, _path, dirs, files, ro, ext, calls>>

\* await outfile.write(contents) raises OSError (the disk is full, say) after
\* the first n bytes reached the file
outfile_write_fails(r, n) ==
    LET rec == req[r]
        h == hnd[r]
        c == rec.ev.file_contents
        b == IF h.bin THEN c.val ELSE Encode(c.val)
        part == SubSeq(b, 1, n) IN
    /\ rec.pc = "write"
    /\ ThreadFree
    /\ h.bin = (c.rep = "bytes")
    /\ n < Len(b)
    /\ data' = [data EXCEPT ![h.ino] = WriteAt(data[h.ino], part, h.app)]
    /\ req' = [req EXCEPT ![r].pc = "release", ![r].exc = "OSError",
                          ![r].touched = IF n = 0 THEN @
                                         ELSE @ \cup {Touch("write", rec.target)}]
    /\ UNCHANGED <<config, zombies, _path, dirs, files, hnd, ro, ext, calls>>

\* the task is cancelled while it awaits outfile.write(contents): the await
\* raises CancelledError, and the write the executor was handed has been done
\* by then or is dropped with the handle
outfile_write_cancelled(r, written) ==
    LET rec == req[r]
        h == hnd[r]
        c == rec.ev.file_contents
        b == IF h.bin THEN c.val ELSE Encode(c.val) IN
    /\ rec.pc = "write"
    /\ ThreadFree
    /\ h.bin = (c.rep = "bytes")
    /\ data' = IF written THEN [data EXCEPT ![h.ino] = WriteAt(data[h.ino], b, h.app)]
               ELSE data
    /\ req' = [req EXCEPT ![r].pc = "release", ![r].exc = "CancelledError",
                          ![r].touched = IF written
                                         THEN @ \cup {Touch("write", rec.target)}
                                         ELSE @]
    /\ UNCHANGED <<config, zombies, _path, dirs, files, hnd, ro, ext, calls>>

\* an __aexit__ that releases only when the block ended without an exception
lock_aexit_on_success(r) ==
    /\ req[r].pc = "release"
    /\ hnd' = [hnd EXCEPT ![r] = IF req[r].exc = "none" THEN release_lock(hnd[r])
                                  ELSE hnd[r]]
    /\ zombies' = Blocked(zombies, hnd')
    /\ req' = [req EXCEPT ![r].pc = IF req[r].exc = "none" THEN "close" ELSE "unwind"]
    /\ UNCHANGED <<config, _path, dirs, files, data, ro, ext, calls>>

\* AsyncFileLock.__aexit__ after the write, or with the exception it raised
lock_aexit(r) ==
    /\ req[r].pc = "release"
    /\ hnd' = [hnd EXCEPT ![r] = release_lock(hnd[r])]
    /\ zombies' = Blocked(zombies, hnd')
    /\ req' = [req EXCEPT ![r].pc = IF req[r].exc = "none" THEN "close" ELSE "unwind"]
    /\ UNCHANGED <<config, _path, dirs, files, data, ro, ext, calls>>

\* aiofiles' __aexit__ closes the handle; output() then returns True, or the
\* pending exception meets the except clauses of _process_file_write_event
aiofiles_close(r) ==
    LET rec == req[r] IN
    /\ rec.pc \in {"close", "unwind"}
    /\ ThreadFree
    /\ data' = Flushed(hnd[r])
    /\ hnd' = [hnd EXCEPT ![r] = NoHandle]
    /\ zombies' = Blocked(LeftBehind(hnd[r]), hnd')
    /\ req' = [req EXCEPT ![r] =
          IF rec.pc = "close" THEN Finish(rec, "True", <<>>, {})
          ELSE write_except(rec, rec.exc, {})]
    /\ UNCHANGED <<config, _path, dirs, files, ro, ext, calls>>

\* ------------------------------------------------ direct users of the lock
\* a caller opens an existing file for reading, to lock it with a lock object
\* of class cls made with the timeout t
ext_open(u, p, cls, t) ==
    /\ ext[u] = "closed"
    /\ p \in DOMAIN files
    /\ hnd' = [hnd EXCEPT ![u] = [NoHandle EXCEPT !.open = TRUE, !.ino = files[p],
                                                   !.cls = cls, !.timeout = t]]
    /\ ext' = [ext EXCEPT ![u] = "open"]
    /\ UNCHANGED <<config, zombies, _path, dirs, files, data, ro, req, calls>>

\* AsyncFileLock.acquire: flock() is handed to the executor
acquire(u) ==
    /\ ext[u] \in {"open", "released"}
    /\ hnd[u].open
    /\ ThreadFree
    /\ hnd' = [hnd EXCEPT ![u].pending = TRUE]
    /\ ext' = [ext EXCEPT ![u] = "acquire"]
    /\ UNCHANGED <<config, zombies, _path, dirs, files, data, ro, req, calls>>

\* AsyncFileLock.release
release(u) ==
    /\ ext[u] = "held"
    /\ hnd' = [hnd EXCEPT ![u] = IF hnd[u].cls = "PortaLocker"
                                  THEN portalocker_release(hnd[u])
                                  ELSE release_lock(hnd[u])]
    /\ zombies' = Blocked(zombies, hnd')
    /\ ext' = [ext EXCEPT ![u] = "released"]
    /\ UNCHANGED <<config, _path, dirs, files, data, ro, req, calls>>

\* the caller closes its handle
ext_close(u) ==
    /\ ext[u] \in {"open", "released", "timeout", "cancelled", "LockException"}
    /\ hnd' = [hnd EXCEPT ![u] = NoHandle]
    /\ zombies' = Blocked(LeftBehind(hnd[u]), hnd')
    /\ ext' = [ext EXCEPT ![u] = "closed"]
    /\ UNCHANGED <<config, _path, dirs, files, data, ro, req, calls>>

\* ------------------------------------------------ FileStorage configuration
\* a str naming an absolute path, as its components between separators: a
\* trailing or doubled separator leaves an empty component
String(segs) == [abs |-> TRUE, segs |-> segs]

\* the default of the path parameter of FileStorage.__init__: ""
NoString == [abs |-> FALSE, segs |-> <<>>]

\* pathlib.Path(s): empty and "." components are dropped
pathlib_Path(s) == SelectSeq(s.segs, LAMBDA x : x \notin {"", "."})

\* str(path)
str_of(p) == String(p)

\* the base of a FileStorageOutput that does not exist
NoPath == <<"">>

\* a FileStorage the framework has allocated: no attribute is set
NewConfig == [init |-> "new", has_path |-> FALSE, _path |-> NoString, _output |-> FALSE]

\* a setter that finds no output to pass the path on to
hasattr_output_never == FALSE

\* hasattr(self, "_output")
hasattr_output == config._output

\* a constructor that takes the path attribute for set
hasattr_path_always == TRUE

\* hasattr(self, "_path")
hasattr_path == config.has_path

\* FileStorage.path setter, and the FileStorageOutput.path setter it calls
path_setter(s) ==
    /\ config.init # "ValueError"
    /\ config' = [config EXCEPT !.has_path = TRUE, !._path = s]
    /\ _path' = IF hasattr_output THEN pathlib_Path(s) ELSE _path
    /\ UNCHANGED <<zombies, dirs, files, data, ro, req, hnd, ext, calls>>

\* FileStorage.__init__, called with no argument after the framework has set
\* the properties it was given: it raises ValueError, or makes the output
FileStorage__init__ ==
    /\ config.init = "new"
    /\ IF ~hasattr_path
       THEN /\ config' = [config EXCEPT !.has_path = TRUE, !._path = NoString,
                                        !.init = "ValueError"]
            /\ UNCHANGED _path
       ELSE /\ config' = [config EXCEPT !._output = TRUE, !.init = "ready"]
            /\ _path' = pathlib_Path(config._path)
    /\ UNCHANGED <<zombies, dirs, files, data, ro, req, hnd, ext, calls>>

\* FileStorageOutput.path getter
output_path == str_of(_path)

\* FileStorage.path getter and FileStorage.path_exists
config_path == output_path

config_path_exists == path_exists

\* FileStorage.get_inputs and FileStorage.get_outputs
get_inputs == <<>>

get_outputs == <<[_path |-> _path]>>

\* ------------------------------------------------------------ specification
NoFiles == [q \in {} |-> 0]

\* the trees a behaviour starts from: the base T missing, a regular file, or a
\* directory that is empty or holds the file or directory T/a; T read-only or not
InitTrees ==
    { [dirs |-> {Root}, files |-> NoFiles, data |-> <<>>, ro |-> {}],
      [dirs |-> {Root}, files |-> (T :> 1), data |-> <<(<<80>>)>>, ro |-> {}] }
    \cup
    { [dirs |-> {Root, T} \cup d, files |-> f.files, data |-> f.data, ro |-> r] :
        d \in {{}}, r \in {{}, {T}},
        f \in { [files |-> NoFiles, data |-> <<>>],
                [files |-> (<<"T", "a">> :> 1), data |-> <<(<<80, 81>>)>>] } }
    \cup
    { [dirs |-> {Root, T, <<"T", "a">>}, files |-> NoFiles, data |-> <<>>, ro |-> r] :
        r \in {{}, {T}} }

Init ==
    /\ config = [init |-> "ready", has_path |-> TRUE, _path |-> str_of(T), _output |-> TRUE]
    /\ zombies = EmptyBag
    /\ _path = T
    /\ \E t \in InitTrees :
        /\ dirs = t.dirs
        /\ files = t.files
        /\ data = t.data
        /\ ro = t.ro
    /\ req = [r \in Slots |-> NoReq]
    /\ hnd = [p \in Owners |-> NoHandle]
    /\ ext = [u \in Exts |-> "closed"]
    /\ calls = 0

\* the host issues one output() call at a time, with any event
Next ==
    \/ \E ev \in Events : output(1, ev)
    \/ \E r \in Slots : aiofiles_open(r)
    \/ \E p \in Owners : flock_returns(p)
    \/ \E p \in Owners : acquire_returns(p)
    \/ \E r \in Slots, flush \in BOOLEAN : outfile_write(r, flush)
    \/ \E r \in Slots : lock_aexit(r)
    \/ \E r \in Slots : aiofiles_close(r)

Spec == Init /\ [][Next]_vars

\* WriteFile events on one path, in every mode, as str and as bytes
ConcEvents ==
    { ev \in WriteEvents :
        /\ ev.path = [abs |-> FALSE, segs |-> <<"a">>]
        /\ (ev.append => ev.may_overwrite)
        /\ (~ev.may_overwrite => ev.file_contents.rep = "bytes") }

InitConc ==
    /\ Init
    /\ ro = {}
    /\ T \in dirs
    /\ <<"T", "a">> \notin dirs

\* the host has up to two output() calls in flight (the second slot is taken
\* when the first is busy), next to a direct user of the lock
NextConc ==
    \/ \E r \in Slots, ev \in ConcEvents :
          /\ (r = 1 \/ req[1].pc \notin {"idle", "done"})
          /\ output(r, ev)
    \/ \E r \in Slots : aiofiles_open(r)
    \/ \E p \in Owners : flock_returns(p)
    \/ \E p \in Owners : acquire_returns(p)
    \/ \E p \in Owners : acquire_timeout(p)
    \/ \E r \in Slots, flush \in BOOLEAN : outfile_write(r, flush)
    \/ \E r \in Slots : lock_aexit(r)
    \/ \E r \in Slots : aiofiles_close(r)
    \/ \E p \in DOMAIN files : ext_open(3, p, AsyncFileLock, DefaultTimeout)
    \/ acquire(3)
    \/ acquire_cancelled(3)
    \/ release(3)
    \/ ext_close(3)

SpecConc == InitConc /\ [][NextConc]_vars

\* the most bytes of a content that reach the file before its write fails
MaxPartial == 2

\* one output() call at a time, whose write may fail partway or be cancelled
NextFault ==
    \/ \E ev \in Events : output(1, ev)
    \/ \E r \in Slots : aiofiles_open(r)
    \/ \E p \in Owners : flock_returns(p)
    \/ \E p \in Owners : acquire_returns(p)
    \/ \E r \in Slots, flush \in BOOLEAN : outfile_write(r, flush)
    \/ \E r \in Slots, n \in 0..MaxPartial : outfile_write_fails(r, n)
    \/ \E r \in Slots, written \in BOOLEAN : outfile_write_cancelled(r, written)
    \/ \E r \in Slots : lock_aexit(r)
    \/ \E r \in Slots : aiofiles_close(r)

SpecFault == Init /\ [][NextFault]_vars

\* the two lock classes of portable_locking
LockClasses == {"Fcntl", "PortaLocker"}

InitLock ==
    /\ InitConc
    /\ <<"T", "a">> \in DOMAIN files

\* two callers lock the same file through handles of their own, each with a
\* lock object of either class, made with the default timeout or a short one
NextLock ==
    \/ \E u \in Exts, p \in DOMAIN files, cls \in LockClasses,
           t \in {ShortTimeout, DefaultTimeout} : ext_open(u, p, cls, t)
    \/ \E u \in Exts : acquire(u)
    \/ \E u \in Exts : flock_returns(u)
    \/ \E u \in Exts : acquire_returns(u)
    \/ \E u \in Exts : acquire_timeout(u)
    \/ \E u \in Exts, closes \in BOOLEAN : portalocker_gives_up(u, closes)
    \/ \E u \in Exts : acquire_cancelled(u)
    \/ \E u \in Exts : release(u)
    \/ \E u \in Exts : ext_close(u)

SpecLock == InitLock /\ [][NextLock]_vars

\* the kernel hands a free lock to a flock() call that waits for it, and the
\* event loop resumes acquire() once the executor future is done
FairLock ==
    /\ SpecLock
    /\ \A u \in Exts : WF_vars(flock_returns(u)) /\ WF_vars(acquire_returns(u))

\* event.path values that lead to Tx, a sibling of the base T whose name begins
\* with the name of the base, next to one that stays inside the base
SiblingPaths ==
    { [abs |-> FALSE, segs |-> <<"..", "Tx", "foo">>],
      [abs |-> FALSE, segs |-> <<"..", "Tx">>],
      [abs |-> TRUE,  segs |-> <<"Tx", "foo">>],
      [abs |-> FALSE, segs |-> <<"a">>] }

\* the events of the three kinds on those paths
SiblingEvents ==
    { [kind |-> k, path |-> p, file_contents |-> NoContents,
       append |-> FALSE, may_overwrite |-> TRUE] :
        k \in {"CreateDirectoryOutputEvent", "DeleteFileOutputEvent"},
        p \in SiblingPaths }
    \cup
    { [kind |-> "WriteToFileOutputEvent", path |-> p, file_contents |-> c,
       append |-> a, may_overwrite |-> o] :
        p \in SiblingPaths, c \in Contents, a \in BOOLEAN, o \in BOOLEAN }

\* one output() call at a time, with an event on one of those paths
NextSibling ==
    \/ \E ev \in SiblingEvents : output(1, ev)
    \/ \E r \in Slots : aiofiles_open(r)
    \/ \E p \in Owners : flock_returns(p)
    \/ \E p \in Owners : acquire_returns(p)
    \/ \E r \in Slots, flush \in BOOLEAN : outfile_write(r, flush)
    \/ \E r \in Slots : lock_aexit(r)
    \/ \E r \in Slots : aiofiles_close(r)

SpecSibling == Init /\ [][NextSibling]_vars

\* the values the host assigns to FileStorage.path: "/T", "/T/", "/U", "/T/a"
PathStrings ==
    { String(<<"T">>), String(<<"T", "">>), String(<<"U">>), String(<<"T", "a">>) }

\* the events the host sends while it reconfigures the path: one of each kind
\* on the relative path a
CfgEvents ==
    { ev \in PlainEvents : ev.path = [abs |-> FALSE, segs |-> <<"a">>] }
    \cup { ev \in ConcEvents : ~ev.append /\ ev.file_contents.rep = "bytes" }

\* the framework has allocated the FileStorage and not yet set a property
InitCfg ==
    /\ config = NewConfig
    /\ zombies = EmptyBag
    /\ _path = NoPath
    /\ \E t \in InitTrees :
        /\ dirs = t.dirs
        /\ files = t.files
        /\ data = t.data
        /\ ro = t.ro
    /\ req = [r \in Slots |-> NoReq]
    /\ hnd = [p \in Owners |-> NoHandle]
    /\ ext = [u \in Exts |-> "closed"]
    /\ calls = 0

\* the host sets the path before and after construction, and sends events to
\* the output: the first call runs in slot 1 and the later ones in slot 2
NextCfg ==
    \/ \E s \in PathStrings : path_setter(s)
    \/ FileStorage__init__
    \/ \E ev \in CfgEvents : output(IF calls = 0 THEN 1 ELSE 2, ev)
    \/ \E r \in Slots : aiofiles_open(r)
    \/ \E p \in Owners : flock_returns(p)
    \/ \E p \in Owners : acquire_returns(p)
    \/ \E r \in Slots, flush \in BOOLEAN : outfile_write(r, flush)
    \/ \E r \in Slots : lock_aexit(r)
    \/ \E r \in Slots : aiofiles_close(r)

SpecCfg == InitCfg /\ [][NextCfg]_vars

\* the file the direct users lock
Contended == <<"T", "a">>

\* a WriteFile that overwrites the locked file with bytes, and the same
\* WriteFile on another path
LockedEvents == {ev \in ConcEvents : ~ev.append /\ ev.file_contents.rep = "bytes"}

OtherEvents ==
    {[ev EXCEPT !.path = [abs |-> FALSE, segs |-> <<"b">>]] : ev \in LockedEvents}

\* two direct users contend for the lock on one file while the host has a
\* WriteFile on that file and a WriteFile on another path in flight; they
\* share the threads of the loop's default executor
NextPool ==
    \/ \E ev \in LockedEvents : output(1, ev)
    \/ \E ev \in OtherEvents : output(2, ev)
    \/ \E r \in Slots : aiofiles_open(r)
    \/ \E p \in Owners : flock_returns(p)
    \/ \E p \in Owners : acquire_returns(p)
    \/ \E p \in Owners : acquire_timeout(p)
    \/ \E r \in Slots, flush \in BOOLEAN : outfile_write(r, flush)
    \/ \E r \in Slots : lock_aexit(r)
    \/ \E r \in Slots : aiofiles_close(r)
    \/ \E u \in Exts : ext_open(u, Contended, AsyncFileLock, DefaultTimeout)
    \/ \E u \in Exts : acquire(u)
    \/ \E u \in Exts : release(u)
    \/ \E u \in Exts : ext_close(u)

SpecPool == InitLock /\ [][NextPool]_vars

\* every step of an output() call is taken once it can be: the executor queues
\* a call and runs it when a thread comes free, however briefly; the kernel
\* grants a free lock, the loop resumes a coroutine whose future is done, and
\* the timer of wait_for fires. A direct user keeps the lock for as long as it
\* likes
FairPool ==
    /\ SpecPool
    /\ \A r \in Slots :
          /\ SF_vars(aiofiles_open(r))
          /\ SF_vars(\E flush \in BOOLEAN : outfile_write(r, flush))
          /\ WF_vars(lock_aexit(r))
          /\ SF_vars(aiofiles_close(r))
    /\ \A p \in Owners :
          /\ WF_vars(flock_returns(p))
          /\ WF_vars(acquire_returns(p))
          /\ WF_vars(acquire_timeout(p))

\* ------------------------------------------------------------------ claims
ThreeKinds ==
    {"CreateDirectoryOutputEvent", "WriteToFileOutputEvent", "DeleteFileOutputEvent"}

\* p is b or lies below b
Inside(p, b) == \E k \in 0..Len(p) : SubSeq(p, 1, k) = b

\* the canonical join of a call's base and its event's path
Canon(rec) == resolve(joinpath(rec.base, rec.ev.path))

Ended(rec) == rec.pc = "done"

\* C1: with an existing base, a CreateDirectory, WriteFile or DeleteFile whose
\* canonical target is neither the base nor below it returns False and changes
\* nothing in the tree; and every path a call creates, truncates, writes or
\* deletes is the call's base or lies below it.
C1_Confinement ==
    \A r \in Slots :
        LET rec == req[r] IN
        rec.pc # "idle" =>
            /\ \A t \in rec.touched : Inside(t.path, rec.base)
            /\ (rec.ev.kind \in ThreeKinds /\ rec.base \in dirs
                    /\ ~Inside(Canon(rec), rec.base))
                => (Ended(rec) /\ rec.result = "False" /\ rec.touched = {})

C1_Witness ==
    \E r \in Slots :
        /\ Ended(req[r])
        /\ req[r].ev.kind \in ThreeKinds
        /\ req[r].base \in dirs
        /\ ~Inside(Canon(req[r]), req[r].base)
        /\ req[r].result = "False"

\* the handles open on the inode of handle p that hold a flock
Holders(i) == {p \in Owners : hnd[p].open /\ hnd[p].ino = i /\ hnd[p].lock # "none"}

\* C2: at most one open handle holds the lock on a file, and a handle whose
\* acquire() has returned (and which has not released) is that holder, so no
\* acquire() returns while another handle holds the lock.
C2_MutualExclusion ==
    \A p \in Owners :
        hnd[p].open =>
            /\ Cardinality(Holders(hnd[p].ino)) <= 1
            /\ PcOf(p) \in {"write", "release", "held"} => Holders(hnd[p].ino) = {p}

\* one handle holds the lock while the flock() of another handle of the file waits
C2_Witness ==
    \E p, q \in Owners :
        /\ p # q
        /\ hnd[p].open /\ hnd[q].open /\ hnd[p].ino = hnd[q].ino
        /\ hnd[p].lock # "none"
        /\ PcOf(p) \in {"write", "release", "held"}
        /\ hnd[q].pending /\ PcOf(q) = "acquire"

\* C3: a handle whose direct acquire() failed with Timeout, or whose waiting
\* task was cancelled, holds no lock (output() closes its own handle when it
\* unwinds, which drops whatever the abandoned flock() obtained).
C3_NoLeakedLock ==
    \A u \in Exts : ext[u] \in {"timeout", "cancelled"} => hnd[u].lock = "none"

IsSuffix(t, f) == Len(t) <= Len(f) /\ SubSeq(f, Len(f) - Len(t) + 1, Len(f)) = t

\* C4: two WriteFile calls on one path that were in flight together and both
\* returned True leave the file as one of the two serial orders leaves it: two
\* overwrites leave the content of one of them, two appends leave both
\* contents whole at the end of the file in some order.
C4_Serialized ==
    LET r1 == req[1]
        r2 == req[2]
        A == ToBytes(r1.ev.file_contents)
        B == ToBytes(r2.ev.file_contents) IN
    ( /\ Ended(r1) /\ Ended(r2)
      /\ r1.result = "True" /\ r2.result = "True"
      /\ r1.target = r2.target
      /\ r1.target \in DOMAIN files )
    => LET f == data[files[r1.target]]
           m1 == BaseMode(r1.mode)
           m2 == BaseMode(r2.mode) IN
       /\ (m1 = "w" /\ m2 = "w") => f \in {A, B}
       /\ (m1 = "a" /\ m2 = "a") => (IsSuffix(A \o B, f) \/ IsSuffix(B \o A, f))

\* C5: a lock timeout does not leave output(): a call whose acquire() timed
\* out ends by returning True or False.
C5_TimeoutHandled ==
    \A r \in Slots :
        (Ended(req[r]) /\ req[r].exc = "TimeoutError") => req[r].result \in {"True", "False"}

\* C6: a WriteFile whose lock was not acquired within the bound has neither
\* created its target nor changed the target's content.
C6_TimeoutNoWrite ==
    \A r \in Slots :
        (Ended(req[r]) /\ req[r].exc = "TimeoutError")
            => \A t \in req[r].touched : t.op \notin {"create", "truncate", "write"}

\* no proper ancestor of p is a regular file
NoFileAncestor(p) == \A k \in 1..(Len(p) - 1) : Prefix(p, k) \notin DOMAIN files

Absent(p) == p \notin dirs /\ p \notin DOMAIN files

\* the deepest existing directory above p
NearestDir(p) ==
    LET ks == {k \in 0..(Len(p) - 1) : Prefix(p, k) \in dirs}
        k == CHOOSE x \in ks : \A y \in ks : y <= x IN
    Prefix(p, k)

\* creating the directory p (and its missing ancestors) is refused by the OS
MkdirDenied(p) == Absent(p) /\ NoFileAncestor(p) /\ NearestDir(p) \in ro

\* the anticipated failure conditions that hold when output(ev) is called
AnticipatedAtCall(ev) ==
    LET tgt == resolve(joinpath(_path, ev.path)) IN
    /\ ev.kind \in ThreeKinds
    /\ \/ _path \notin dirs
       \/ ~Inside(tgt, _path)
       \/ /\ ev.kind = "CreateDirectoryOutputEvent"
          /\ tgt \in DOMAIN files \/ MkdirDenied(tgt)
       \/ /\ ev.kind = "WriteToFileOutputEvent"
          /\ MkdirDenied(Parent(tgt))
       \/ /\ ev.kind = "DeleteFileOutputEvent"
          /\ \/ Absent(tgt) /\ NoFileAncestor(tgt)
             \/ tgt \in dirs
             \/ tgt \in DOMAIN files /\ Parent(tgt) \in ro

\* the anticipated failure conditions that hold when a WriteFile opens its target
AnticipatedAtOpen(rec) ==
    \/ BaseMode(rec.mode) = "x" /\ rec.target \in DOMAIN files
    \/ Absent(rec.target) /\ Parent(rec.target) \in ro

\* C7: a call made under an anticipated failure condition (base missing, path
\* escapes the base, CreateDirectory on a regular file, the OS refusing to
\* create a directory or a file or to delete, DeleteFile on an absent target
\* or on a directory, exclusive-create on an existing file) ends at once by
\* returning False: no exception leaves output().
C7_NoAnticipatedRaise ==
    [][\A r \in Slots :
          /\ (calls' = calls + 1 /\ req'[r].pc # "idle" /\ AnticipatedAtCall(req'[r].ev))
                => (Ended(req'[r]) /\ req'[r].result = "False")
          /\ (req[r].pc = "open" /\ req'[r].pc # "open" /\ AnticipatedAtOpen(req[r]))
                => (Ended(req'[r]) /\ req'[r].result = "False")]_vars

\* a DeleteFile on a directory returned False
C7_Witness ==
    \E r \in Slots :
        /\ Ended(req[r])
        /\ req[r].ev.kind = "DeleteFileOutputEvent"
        /\ req[r].target \in dirs
        /\ req[r].result = "False"

\* C8: while the configured base is missing or is not a directory, every step
\* leaves the tree as it is (the base is not created), and every output() call
\* returns False having touched nothing.
C8_MissingBase ==
    [][_path \notin dirs =>
          /\ dirs' = dirs /\ files' = files /\ data' = data
          /\ \A r \in Slots :
                req'[r] # req[r] =>
                    /\ Ended(req'[r])
                    /\ req'[r].result = "False"
                    /\ req'[r].touched = {}]_vars

\* a WriteFile was rejected because the base is a regular file
C8_Witness ==
    \E r \in Slots :
        /\ Ended(req[r])
        /\ req[r].ev.kind = "WriteToFileOutputEvent"
        /\ req[r].base \in DOMAIN files
        /\ req[r].result = "False"
        /\ _path \notin dirs

\* C9 as claimed: every event that is none of the three kinds, the bare
\* FSOutputEvent included, is rejected before the base and the path are
\* looked at, so its one diagnostic is the unexpected-event-type warning.
C9_RejectedFirst ==
    \A r \in Slots :
        (Ended(req[r]) /\ req[r].ev.kind \in {"OutputEvent", "FSOutputEvent"})
            => req[r].logs = <<Warning(MsgUnexpected)>>

\* C9 amended: an event outside the FSOutputEvent family is rejected first,
\* with the unexpected-event-type warning whatever the base is; the bare
\* FSOutputEvent is rejected last, after the base check and the confinement
\* check, whose diagnostic it gets when one of them fails. Both return False
\* and change nothing.
C9_RejectedFirstOrLast ==
    \A r \in Slots :
        LET rec == req[r] IN
        (Ended(rec) /\ rec.ev.kind \in {"OutputEvent", "FSOutputEvent"}) =>
            /\ rec.result = "False"
            /\ rec.touched = {}
            /\ rec.logs =
                 IF rec.ev.kind = "OutputEvent" THEN <<Warning(MsgUnexpected)>>
                 ELSE IF rec.base \notin dirs THEN <<Warning(MsgNoBase)>>
                 ELSE IF ~Inside(Canon(rec), rec.base) THEN <<Error(MsgOutside)>>
                 ELSE <<Warning(MsgUnexpected)>>

\* an event outside the family was rejected although the base is missing
C9_Witness ==
    \E r \in Slots :
        /\ Ended(req[r])
        /\ req[r].ev.kind = "OutputEvent"
        /\ req[r].base \notin dirs
        /\ req[r].logs = <<Warning(MsgUnexpected)>>

\* C10: a call that returned False logged exactly one record, a warning or an
\* error.
C10_OneDiagnostic ==
    \A r \in Slots :
        (Ended(req[r]) /\ req[r].result = "False")
            => /\ Len(req[r].logs) = 1
               /\ req[r].logs[1].level \in {"WARNING", "ERROR"}

\* an ended WriteFile that output() dispatched, with its append and
\* may_overwrite flags and what its target named at the call
WriteOn(rec, append, may_overwrite, was) ==
    /\ Ended(rec)
    /\ rec.ev.kind = "WriteToFileOutputEvent"
    /\ rec.ev.append = append
    /\ rec.ev.may_overwrite = may_overwrite
    /\ rec.base \in dirs
    /\ Inside(rec.target, rec.base)
    /\ rec.before.is = was

\* the bytes a call's file_contents stand for: the UTF-8 of a str, the bytes as
\* they are
Wanted(rec) ==
    IF rec.ev.file_contents.rep = "str" THEN Encode(rec.ev.file_contents.val)
    ELSE rec.ev.file_contents.val

\* the target of a call is a regular file holding b
Holds(rec, b) == rec.target \in DOMAIN files /\ data[files[rec.target]] = b

\* C11: a WriteFile with append=true on an existing file, with no other writer
\* in flight, returns True and leaves the file holding its previous content
\* followed by the new content, whether may_overwrite is true or false.
C11_AppendPrecedence ==
    \A r \in Slots : \A o \in BOOLEAN :
        WriteOn(req[r], TRUE, o, "file") =>
            /\ req[r].result = "True"
            /\ Holds(req[r], req[r].before.val \o Wanted(req[r]))

\* an append with may_overwrite=false returned True on an existing file
C11_Witness ==
    \E r \in Slots :
        /\ WriteOn(req[r], TRUE, FALSE, "file")
        /\ req[r].before.val # <<>>
        /\ req[r].result = "True"
        /\ Holds(req[r], req[r].before.val \o Wanted(req[r]))

\* C12: a WriteFile with append=false and may_overwrite=false whose target is
\* an existing file returns False with the one warning 'Unable to write file
\* %s - FileExistsError', and the file holds what it held before.
C12_ExclusiveCreate ==
    \A r \in Slots :
        WriteOn(req[r], FALSE, FALSE, "file") =>
            /\ req[r].result = "False"
            /\ req[r].logs = <<Warning(MsgWriteExists)>>
            /\ Holds(req[r], req[r].before.val)
            /\ \A t \in req[r].touched : t.path # req[r].target

\* an exclusive-create was refused on a file that holds other bytes
C12_Witness ==
    \E r \in Slots :
        /\ WriteOn(req[r], FALSE, FALSE, "file")
        /\ req[r].result = "False"
        /\ req[r].before.val # <<>>
        /\ req[r].before.val # Wanted(req[r])
        /\ Holds(req[r], req[r].before.val)

\* C13: a WriteFile with append=false and may_overwrite=true on an existing
\* file, with no other writer in flight, returns True and leaves the file
\* holding exactly the new content, whether the previous content was shorter
\* or longer.
C13_OverwriteExact ==
    \A r \in Slots :
        WriteOn(req[r], FALSE, TRUE, "file") =>
            /\ req[r].result = "True"
            /\ Holds(req[r], Wanted(req[r]))

\* an overwrite replaced a longer content by a shorter one
C13_Witness ==
    \E r \in Slots :
        /\ WriteOn(req[r], FALSE, TRUE, "file")
        /\ Len(req[r].before.val) > Len(Wanted(req[r]))
        /\ req[r].result = "True"
        /\ Holds(req[r], Wanted(req[r]))

\* the step is an output() call in slot r with an event of the given kind,
\* made with the base in place and the canonical target confined to it
CallOf(r, kind) ==
    /\ calls' = calls + 1
    /\ req'[r].pc # "idle"
    /\ req'[r].ev.kind = kind
    /\ _path \in dirs
    /\ Inside(resolve(joinpath(_path, req'[r].ev.path)), _path)

TreeUnchanged == dirs' = dirs /\ files' = files /\ data' = data

\* C14: a CreateDirectory for a path that is a directory already (the first
\* CreateDirectory made it, or it was there) returns True and leaves the
\* directories, the files and their contents as they were, each time it is
\* issued.
C14_Idempotent ==
    [][\A r \in Slots :
          (CallOf(r, "CreateDirectoryOutputEvent")
              /\ resolve(joinpath(_path, req'[r].ev.path)) \in dirs)
            => (Ended(req'[r]) /\ req'[r].result = "True" /\ TreeUnchanged)]_vars

\* a second CreateDirectory returned True on the directory T/a/b, which is in
\* no starting tree: the first call made it
C14_Witness ==
    \E r \in Slots :
        /\ Ended(req[r])
        /\ calls = 2
        /\ req[r].ev.kind = "CreateDirectoryOutputEvent"
        /\ req[r].target = <<"T", "a", "b">>
        /\ req[r].before.is = "dir"
        /\ req[r].result = "True"
        /\ req[r].touched = {}

C16_DirOverFile ==
    [][\A r \in Slots :
          LET tgt == resolve(joinpath(_path, req'[r].ev.path)) IN
          (CallOf(r, "CreateDirectoryOutputEvent") /\ tgt \in DOMAIN files)
            => /\ Ended(req'[r]) /\ req'[r].result = "False"
               /\ TreeUnchanged
               /\ tgt \in DOMAIN files' /\ tgt \notin dirs']_vars

\* a CreateDirectory returned False on a regular file, which holds its bytes
C16_Witness ==
    \E r \in Slots :
        /\ Ended(req[r])
        /\ req[r].ev.kind = "CreateDirectoryOutputEvent"
        /\ req[r].before.is = "file"
        /\ req[r].before.val # <<>>
        /\ req[r].result = "False"
        /\ Holds(req[r], req[r].before.val)

\* C17: a WriteFile to a confined path whose parent directory does not exist
\* (no regular file among the ancestors, the deepest existing ancestor
\* writable) first makes the missing ancestors, and ends by returning True
\* with the ancestors in place as directories and the target a regular file
\* holding exactly the written content.
C17_WriteMakesAncestors ==
    [][\A r \in Slots :
          LET rec == req'[r]
              tgt == resolve(joinpath(_path, rec.ev.path)) IN
          /\ (CallOf(r, "WriteToFileOutputEvent")
                 /\ Absent(Parent(tgt)) /\ NoFileAncestor(tgt)
                 /\ NearestDir(Parent(tgt)) \notin ro)
               => /\ rec.pc = "open"
                  /\ Touch("mkdir", Parent(tgt)) \in rec.touched
                  /\ \A k \in Len(_path)..(Len(tgt) - 1) : Prefix(tgt, k) \in dirs'
          /\ (Ended(rec) /\ rec.ev.kind = "WriteToFileOutputEvent"
                 /\ \E t \in rec.touched : t.op = "mkdir")
               => /\ rec.result = "True"
                  /\ \A t \in rec.touched : t.op = "mkdir" => t.path \in dirs'
                  /\ rec.target \in DOMAIN files'
                  /\ data'[files'[rec.target]] = Wanted(rec)]_vars

\* a WriteFile made the directory T/a and the file T/a/b with its content
C17_Witness ==
    \E r \in Slots :
        /\ Ended(req[r])
        /\ req[r].ev.kind = "WriteToFileOutputEvent"
        /\ Touch("mkdir", <<"T", "a">>) \in req[r].touched
        /\ req[r].result = "True"
        /\ <<"T", "a">> \in dirs
        /\ req[r].target = <<"T", "a", "b">>
        /\ Holds(req[r], Wanted(req[r]))

\* bytes.decode("utf-8") for one- and two-byte sequences; <<-1>> stands for
\* UnicodeDecodeError
RECURSIVE Decode(_)
Decode(b) ==
    IF b = <<>> THEN <<>>
    ELSE IF b[1] < 128 THEN
        LET rest == Decode(Tail(b)) IN
        IF rest = <<-1>> THEN rest ELSE <<b[1]>> \o rest
    ELSE IF b[1] >= 192 /\ b[1] < 224 /\ Len(b) >= 2 /\ b[2] >= 128 /\ b[2] < 192 THEN
        LET rest == Decode(Tail(Tail(b))) IN
        IF rest = <<-1>> THEN rest ELSE <<(b[1] - 192) * 64 + (b[2] - 128)>> \o rest
    ELSE <<-1>>

\* reading a file back: with text decoding for a str, in binary mode for bytes
ReadBack(b, rep) == IF rep = "str" THEN Decode(b) ELSE b

\* C18: a WriteFile opens its target in a binary mode if and only if its
\* content is bytes, and its handle is a binary handle on the same condition;
\* a WriteFile that created its target and returned True leaves a file that
\* reads back (decoded as text for a str, in binary for bytes) as exactly the
\* written value.
C18_RoundTrip ==
    \A r \in Slots :
        LET rec == req[r]
            c == rec.ev.file_contents IN
        (rec.ev.kind = "WriteToFileOutputEvent" /\ rec.mode # "-") =>
            /\ (rec.mode \in {"wb", "xb", "ab"}) <=> (c.rep = "bytes")
            /\ (rec.mode \in {"w", "x", "a"}) <=> (c.rep = "str")
            /\ hnd[r].open => (hnd[r].bin <=> (c.rep = "bytes"))
            /\ (Ended(rec) /\ rec.result = "True"
                   /\ Touch("create", rec.target) \in rec.touched)
                 => /\ rec.target \in DOMAIN files
                    /\ ReadBack(data[files[rec.target]], c.rep) = c.val

\* a str holding a non-ASCII character was written to a fresh path: the file
\* holds more bytes than the str has characters, and decodes to the str
C18_Witness ==
    \E r \in Slots :
        LET rec == req[r] IN
        /\ Ended(rec) /\ rec.result = "True"
        /\ rec.ev.file_contents.rep = "str"
        /\ Touch("create", rec.target) \in rec.touched
        /\ rec.target \in DOMAIN files
        /\ Len(data[files[rec.target]]) > Len(rec.ev.file_contents.val)
        /\ Decode(data[files[rec.target]]) = rec.ev.file_contents.val

\* C19: a DeleteFile on a confined target that unlink does not find (the
\* entry or a directory above it is missing), that lies in a directory the
\* OS lets nobody change, or that is a directory, ends at once by returning
\* False: nothing leaves output() and the tree stays as it was.
C19_DeleteFailures ==
    [][\A r \in Slots :
          LET tgt == resolve(joinpath(_path, req'[r].ev.path)) IN
          (CallOf(r, "DeleteFileOutputEvent")
              /\ \/ Absent(tgt) /\ NoFileAncestor(tgt)
                 \/ tgt \in dirs
                 \/ tgt \in DOMAIN files /\ Parent(tgt) \in ro)
            => (Ended(req'[r]) /\ req'[r].result = "False" /\ TreeUnchanged)]_vars

\* a DeleteFile the OS refused returned False and the file is in place
C19_Witness ==
    \E r \in Slots :
        /\ Ended(req[r])
        /\ req[r].ev.kind = "DeleteFileOutputEvent"
        /\ req[r].before.is = "file"
        /\ Parent(req[r].target) \in ro
        /\ req[r].result = "False"
        /\ Holds(req[r], req[r].before.val)

\* C20: a DeleteFile on a confined regular file in a directory that can be
\* changed returns True and the path names nothing afterwards; and a
\* DeleteFile returns True only when its target was a regular file that the
\* call removed.
C20_DeleteSuccess ==
    [][\A r \in Slots :
          LET tgt == resolve(joinpath(_path, req'[r].ev.path)) IN
          /\ (CallOf(r, "DeleteFileOutputEvent")
                 /\ tgt \in DOMAIN files /\ Parent(tgt) \notin ro)
               => /\ Ended(req'[r]) /\ req'[r].result = "True"
                  /\ tgt \notin DOMAIN files' /\ tgt \notin dirs'
          /\ (calls' = calls + 1 /\ req'[r].pc # "idle"
                 /\ req'[r].ev.kind = "DeleteFileOutputEvent"
                 /\ req'[r].result = "True")
               => /\ tgt \in DOMAIN files
                  /\ tgt \notin DOMAIN files' /\ tgt \notin dirs'
                  /\ Inside(tgt, _path)]_vars

\* a DeleteFile returned True and its target, a regular file before, is gone
C20_Witness ==
    \E r \in Slots :
        /\ Ended(req[r])
        /\ req[r].ev.kind = "DeleteFileOutputEvent"
        /\ req[r].before.is = "file"
        /\ req[r].result = "True"
        /\ req[r].target \notin DOMAIN files
        /\ req[r].target \notin dirs

\* the lock on u's file is held through another handle
HeldElsewhere(u) == hnd[u].open /\ ~CanGrant(u, AcquireFlag)

\* C21: an acquire() that waits while another handle holds the lock ends, when
\* it is not cancelled, in the Timeout error, with the caller's handle holding
\* no lock
C21_BoundedWait ==
    [][\A u \in Exts :
          (/\ ext[u] = "acquire"
           /\ HeldElsewhere(u)
           /\ ext'[u] \notin {"acquire", "cancelled"})
          => (ext'[u] = "timeout" /\ hnd'[u].lock = "none")]_vars

\* every other caller is done with the lock: it has released it, or closed
\* its handle, or never asked for it
OthersIdle(u) == \A v \in Exts \ {u} : ext[v] \in {"open", "released", "closed"}

\* C22: an acquire() that is pending when every other caller has released the
\* lock completes with the lock held, unless it is cancelled or another caller
\* goes for the lock again first; and an acquire() completes only with the lock
\* on its own handle and on no other handle of the file
C22_PendingSucceeds ==
    /\ \A u \in Exts :
          (ext[u] = "acquire" /\ hnd[u].pending /\ OthersIdle(u))
          ~> (ext[u] \in {"held", "cancelled"} \/ ~OthersIdle(u))
    /\ [][\A u \in Exts :
            (ext[u] = "acquire" /\ ext'[u] = "held")
            => (hnd'[u].lock = AcquireFlag /\ CanGrant(u, AcquireFlag)')]_vars

\* one caller has released the lock and the handle of another, on the same
\* file, holds it after its acquire() returned
C22_Witness ==
    \E u, v \in Exts :
        /\ u # v
        /\ ext[v] = "released" /\ hnd[v].open /\ hnd[v].cls = "Fcntl"
        /\ ext[u] = "held" /\ hnd[u].lock = AcquireFlag /\ hnd[u].cls = "Fcntl"
        /\ hnd[u].ino = hnd[v].ino

\* C23: output() leaves the locked block, however the write ended, through the
\* lock's __aexit__, which leaves no lock on the handle; and no call ends with
\* a lock on its handle
C23_ScopedRelease ==
    [][\A r \in Slots :
          /\ (req[r].pc = "write" /\ req'[r].pc # "write") => req'[r].pc = "release"
          /\ (req[r].pc = "release" /\ req'[r].pc # "release") => hnd'[r].lock = "none"
          /\ Ended(req'[r]) => hnd'[r].lock = "none"]_vars

\* a write that failed partway or was cancelled has left the locked block: the
\* handle is still open and holds no lock
C23_Witness ==
    \E r \in Slots :
        /\ req[r].pc = "unwind"
        /\ req[r].exc \in {"OSError", "CancelledError"}
        /\ hnd[r].open
        /\ hnd[r].lock = "none"

\* C24: a CreateDirectory, WriteFile or DeleteFile whose target resolves to the
\* base directory itself returns False and changes nothing
C24_BaseRejected ==
    \A r \in Slots :
        (/\ Ended(req[r])
         /\ req[r].ev.kind \in ThreeKinds
         /\ req[r].target = resolve(req[r].base))
        => (req[r].result = "False" /\ req[r].touched = {})

\* C25: a WriteFile on a path other than the one lock acquisitions wait on
\* runs to its end, whatever waits for that lock or has timed out waiting
C25_UnrelatedCompletes ==
    \A r \in Slots :
        (req[r].pc = "open" /\ req[r].target # Contended) ~> Ended(req[r])

\* C26 as stated: once the FileStorage is constructed, its path and the path
\* of its output both read as the string last assigned, and path_exists on
\* both says whether that path is a directory now
C26_PathInSync ==
    config.init = "ready" =>
        /\ config_path = config._path
        /\ output_path = config._path
        /\ config_path_exists = (Entry(_path).is = "dir")

\* the string pathlib makes of a str: no empty and no "." component
Normalised(s) ==
    [abs |-> s.abs,
     segs |-> SelectSeq(s.segs, LAMBDA x : x # "" /\ x # ".")]

\* C26 amended: both read as the normalised form of the string last assigned,
\* and path_exists on both says whether the path that string names is a
\* directory in the tree as it is now
C26_PathInSyncNormalised ==
    config.init = "ready" =>
        /\ config_path = Normalised(config._path)
        /\ output_path = Normalised(config._path)
        /\ config_path_exists = (Entry(Normalised(config._path).segs).is = "dir")
        /\ path_exists = config_path_exists

\* the path was reassigned, with a trailing separator, to a directory, after
\* a call had returned True under another base
C26_Witness ==
    /\ config.init = "ready"
    /\ config._path # Normalised(config._path)
    /\ config_path_exists
    /\ \E r \in Slots :
          /\ Ended(req[r])
          /\ req[r].base # _path
          /\ req[r].result = "True"

\* C27: a call that starts works under the path last assigned to the
\* FileStorage: it is rejected with the base-missing warning, the tree
\* unchanged, when that path is no directory, and otherwise its target is the
\* canonical join of that path and the event's path
C27_CurrentBase ==
    [][\A r \in Slots :
          (calls' = calls + 1 /\ req'[r] # req[r] /\ IsFSOutputEvent(req'[r].ev))
          => LET base == Normalised(config._path).segs IN
             IF Entry(base).is # "dir"
             THEN /\ req'[r].result = "False"
                  /\ req'[r].logs = <<Warning(MsgNoBase)>>
                  /\ <<dirs, files, data>>' = <<dirs, files, data>>
             ELSE /\ req'[r].base = base
                  /\ req'[r].target = resolve(joinpath(base, req'[r].ev.path))]_vars

\* the first call was rejected for its missing base U, and a later call, after
\* the path was set to a directory, returned True there
C27_Witness ==
    /\ req[1].base = U
    /\ req[1].result = "False"
    /\ req[1].logs = <<Warning(MsgNoBase)>>
    /\ req[2].base # U
    /\ req[2].result = "True"
    /\ req[2].touched # {}

\* C28: whichever class the lock object has, an acquire() that is not
\* cancelled ends in the Timeout error when the lock was held through another
\* handle, and with the lock held otherwise, the caller's handle open
C28_UniformTimeout ==
    [][\A u \in Exts :
          (ext[u] = "acquire" /\ ext'[u] \notin {"acquire", "cancelled"})
          => /\ ext'[u] = IF HeldElsewhere(u) THEN "timeout" ELSE "held"
             /\ hnd'[u].open]_vars

\* C29: until the caller closes its handle, the handle is open, whatever the
\* lock object did with it
C29_HandleBorrowed == \A u \in Exts : ext[u] # "closed" => hnd[u].open

\* C30: __init__ raises ValueError and makes no output when no path was set,
\* and no call reaches an output then; when a path was set it makes the one
\* output, with that path as its base, and there are no inputs
C30_ConstructionNeedsPath ==
    /\ [][(config.init = "new" /\ config'.init # "new") =>
             IF config.has_path
             THEN /\ config'.init = "ready"
                  /\ Len(get_outputs') = 1
                  /\ get_outputs'[1]._path = Normalised(config._path).segs
                  /\ get_inputs' = <<>>
             ELSE /\ config'.init = "ValueError"
                  /\ ~config'._output]_vars
    /\ [](config.init = "ValueError" => (calls = 0 /\ ~config._output))

\* construction without a path has raised ValueError
C30_Witness == config.init = "ValueError" /\ ~config._output /\ _path = NoPath

\* p is, or lies below, a sibling of b whose name begins with the name of b
BelowNamesake(p, b) ==
    /\ b # <<>>
    /\ Len(p) >= Len(b)
    /\ Prefix(p, Len(b) - 1) = Parent(b)
    /\ p[Len(b)] # b[Len(b)]
    /\ startswith(p[Len(b)], b[Len(b)])

\* C31: with an existing base, a request whose canonical target lies in a
\* sibling of the base whose name begins with the base's name returns False
\* with the outside-base error alone, and creates and changes nothing
C31_ByComponents ==
    \A r \in Slots :
        (/\ Ended(req[r])
         /\ req[r].ev.kind \in ThreeKinds
         /\ req[r].logs # <<Warning(MsgNoBase)>>
         /\ BelowNamesake(Canon(req[r]), req[r].base))
        => /\ req[r].result = "False"
           /\ req[r].logs = <<Error(MsgOutside)>>
           /\ req[r].touched = {}
           /\ \A q \in dirs \cup DOMAIN files : ~BelowNamesake(q, req[r].base)

\* a WriteFile for Tx/foo under the existing base T was rejected with the
\* outside-base error
C31_Witness ==
    \E r \in Slots :
        /\ Ended(req[r])
        /\ req[r].ev.kind = "WriteToFileOutputEvent"
        /\ req[r].base = T
        /\ Canon(req[r]) = <<"Tx", "foo">>
        /\ req[r].result = "False"
        /\ req[r].logs = <<Error(MsgOutside)>>

\* C32: with an existing base, a request with an absolute path has that path,
\* resolved on its own, as its target; below the base or equal to it, it goes
\* on to its operation, and anywhere else it returns False with the
\* outside-base error alone and changes nothing
C32_AbsoluteByResolution ==
    \A r \in Slots :
        (/\ req[r].pc # "idle"
         /\ req[r].ev.kind \in ThreeKinds
         /\ req[r].ev.path.abs
         /\ req[r].logs # <<Warning(MsgNoBase)>>)
        => LET there == resolve(req[r].ev.path.segs) IN
           IF Inside(there, req[r].base)
           THEN /\ req[r].target = there
                /\ \A i \in 1..Len(req[r].logs) :
                      req[r].logs[i].msg \notin {MsgOutside, MsgUnexpected, MsgNoBase}
           ELSE /\ Ended(req[r])
                /\ req[r].result = "False"
                /\ req[r].logs = <<Error(MsgOutside)>>
                /\ req[r].touched = {}

\* a request with the absolute path /T/a under the base T has made its target
C32_Witness ==
    \E r \in Slots :
        /\ Ended(req[r])
        /\ req[r].ev.path.abs
        /\ req[r].base = T
        /\ req[r].target = <<"T", "a">>
        /\ req[r].result = "True"
        /\ req[r].touched # {}

\* C33: a request whose base is no directory and whose path would leave the
\* base gets the base-path-missing warning as its one diagnostic, and its
\* target is never resolved
C33_BaseBeforeConfinement ==
    \A r \in Slots :
        (/\ Ended(req[r])
         /\ IsFSOutputEvent(req[r].ev)
         /\ req[r].base \notin dirs
         /\ ~Inside(Canon(req[r]), req[r].base))
        => /\ req[r].result = "False"
           /\ req[r].logs = <<Warning(MsgNoBase)>>
           /\ req[r].target = NoReq.target
           /\ req[r].before = NoEntry
           /\ req[r].touched = {}

\* a WriteFile for ../U was rejected under a base that does not exist
C33_Witness ==
    \E r \in Slots :
        /\ Ended(req[r])
        /\ req[r].ev.kind = "WriteToFileOutputEvent"
        /\ req[r].ev.path.segs = <<"..", "U">>
        /\ req[r].base \notin dirs \cup DOMAIN files
        /\ req[r].logs = <<Warning(MsgNoBase)>>

\* the steps a WriteFile in slot r takes in order, from the open to the close
WriteOrder == <<"open", "acquire", "write", "release", "close", "done">>

\* C34: a WriteFile goes from the open of its handle to the lock, the write,
\* the release and the close in that order, and whenever a step of it creates
\* the file or changes what the file holds, its handle holds the lock
C34_WriteUnderLock ==
    [][\A r \in Slots :
          (/\ req'[r].ev.kind = "WriteToFileOutputEvent"
           /\ (req'[r] # req[r] \/ hnd'[r] # hnd[r]))
          => /\ (/\ req[r].pc \in {"open", "acquire", "write", "release", "close"}
                 /\ req'[r].pc # req[r].pc
                 /\ req'[r].exc = "none"
                 /\ req'[r].result \in {"none", "True"})
                => \E i \in 1..(Len(WriteOrder) - 1) :
                      req[r].pc = WriteOrder[i] /\ req'[r].pc = WriteOrder[i + 1]
             /\ (files' # files \/ data' # data)
                => (hnd[r].open /\ hnd[r].lock = AcquireFlag)]_vars

\* the error kinds each operation turns into a False return
Listed(kind) ==
    IF kind = "CreateDirectoryOutputEvent" THEN {"PermissionError", "FileExistsError"}
    ELSE IF kind = "WriteToFileOutputEvent" THEN {"FileExistsError", "PermissionError"}
    ELSE IF kind = "DeleteFileOutputEvent"
        THEN {"FileNotFoundError", "PermissionError", "IsADirectoryError"}
    ELSE {}

\* how a call of that kind ends when its operation raises e
EndsWith(rec, kind, e) ==
    /\ Ended(rec)
    /\ rec.result = IF e \in Listed(kind) THEN "False" ELSE e

\* C35: when the operation of a dispatched request raises, the call returns
\* False if the error is of a kind listed for the operation, and the error
\* leaves output() otherwise: at the mkdir, the unlink and the mkdir of the
\* parent made in the call itself, at the open of the file, and when the
\* handle is closed on an error of the lock or the write
C35_OnlyListedKinds ==
    [][\A r \in Slots :
          req'[r] # req[r] =>
          LET kind == req'[r].ev.kind
              tgt == resolve(joinpath(_path, req'[r].ev.path)) IN
          /\ (/\ calls' = calls + 1
              /\ kind \in ThreeKinds
              /\ _path \in dirs
              /\ Inside(tgt, _path))
             => LET e == IF kind = "CreateDirectoryOutputEvent"
                             THEN mkdir(tgt, dirs, files, ro).err
                         ELSE IF kind = "DeleteFileOutputEvent"
                             THEN unlink_err(tgt, dirs, files, ro)
                         ELSE mkdir(Parent(tgt), dirs, files, ro).err IN
                e # "ok" => EndsWith(req'[r], kind, e)
          /\ (calls' = calls /\ req[r].pc = "open")
             => LET e == open_err(req[r].target, BaseMode(req[r].mode),
                                  dirs, files, ro) IN
                e # "ok" => EndsWith(req'[r], kind, e)
          /\ (calls' = calls /\ req[r].pc = "unwind")
             => EndsWith(req'[r], kind, req[r].exc)]_vars

\* a WriteFile on an existing directory has let IsADirectoryError leave
\* output()
C35_Witness ==
    \E r \in Slots :
        /\ Ended(req[r])
        /\ req[r].ev.kind = "WriteToFileOutputEvent"
        /\ req[r].result = "IsADirectoryError"
        /\ req[r].target \in dirs

\* the record the claim names for a failure of that kind, or <<>> for a
\* failure it names no record for
Diagnostic(kind, e) ==
    IF e = "unexpected" THEN <<Warning(MsgUnexpected)>>
    ELSE IF e = "base" THEN <<Warning(MsgNoBase)>>
    ELSE IF e = "outside" THEN <<Error(MsgOutside)>>
    ELSE IF kind = "CreateDirectoryOutputEvent" /\ e = "PermissionError"
        THEN <<Warning(MsgMkdirPerm)>>
    ELSE IF kind = "WriteToFileOutputEvent" /\ e = "FileExistsError"
        THEN <<Warning(MsgWriteExists)>>
    ELSE IF kind = "WriteToFileOutputEvent" /\ e = "PermissionError"
        THEN <<Warning(MsgWritePerm)>>
    ELSE IF kind = "DeleteFileOutputEvent" /\ e = "FileNotFoundError"
        THEN <<Warning(MsgDeleteMissing)>>
    ELSE IF kind = "DeleteFileOutputEvent" /\ e = "PermissionError"
        THEN <<Warning(MsgDeletePerm)>>
    ELSE IF kind = "DeleteFileOutputEvent" /\ e = "IsADirectoryError"
        THEN <<Warning(MsgDeleteIsDir)>>
    ELSE <<>>

\* what fails in the call made with ev on the tree as it is: a check made
\* before the dispatch, or the operation run in the call itself
FailureAtCall(ev) ==
    LET tgt == resolve(joinpath(_path, ev.path)) IN
    IF ev.kind = "OutputEvent" THEN "unexpected"
    ELSE IF _path \notin dirs THEN "base"
    ELSE IF ~Inside(tgt, _path) THEN "outside"
    ELSE IF ev.kind = "CreateDirectoryOutputEvent" THEN mkdir(tgt, dirs, files, ro).err
    ELSE IF ev.kind = "DeleteFileOutputEvent" THEN unlink_err(tgt, dirs, files, ro)
    ELSE IF ev.kind = "WriteToFileOutputEvent"
        THEN mkdir(Parent(tgt), dirs, files, ro).err
    ELSE "unexpected"

\* C36: a call that fails logs the record of its kind of failure and no other
\* record: the template and the severity the kind has, once
C36_OwnDiagnostic ==
    [][\A r \in Slots :
          req'[r] # req[r] =>
          LET kind == req'[r].ev.kind IN
          /\ (calls' = calls + 1 /\ FailureAtCall(req'[r].ev) # "ok")
             => req'[r].logs = Diagnostic(kind, FailureAtCall(req'[r].ev))
          /\ (calls' = calls + 1 /\ FailureAtCall(req'[r].ev) = "ok")
             => req'[r].logs = <<>>
          /\ (calls' = calls /\ req[r].pc = "open")
             => req'[r].logs =
                  Diagnostic(kind, open_err(req[r].target, BaseMode(req[r].mode),
                                            dirs, files, ro))
          /\ (calls' = calls /\ req[r].pc = "unwind")
             => req'[r].logs = Diagnostic(kind, req[r].exc)
          /\ (calls' = calls /\ req[r].pc \notin {"open", "unwind"})
             => req'[r].logs = req[r].logs]_vars

\* a DeleteFile on a directory was rejected with the record of its kind
C36_Witness ==
    \E r \in Slots :
        /\ Ended(req[r])
        /\ req[r].ev.kind = "DeleteFileOutputEvent"
        /\ req[r].target \in dirs
        /\ req[r].result = "False"
        /\ req[r].logs = <<Warning(MsgDeleteIsDir)>>

\* the paths that name something before or after a step
Named == dirs \cup DOMAIN files
NamedNext == dirs' \cup DOMAIN files'

\* q is a proper ancestor of p
Above(q, p) == Len(q) < Len(p) /\ Prefix(p, Len(q)) = q

\* C37: a step changes what a path names, or the content of the file it
\* names, only for the target of a request in flight, or for an ancestor of
\* that target that was missing when the request is a CreateDirectory or a
\* WriteFile; so a call that returns True leaves every other entry as it was
C37_OnlyTarget ==
    [][\A q \in Named \cup NamedNext :
          Entry(q)' # Entry(q) =>
          \E r \in Slots :
              /\ req'[r].pc # "idle"
              /\ req'[r] # req[r] \/ hnd'[r] # hnd[r]
              /\ \/ q = req'[r].target
                 \/ /\ Above(q, req'[r].target)
                    /\ Entry(q) = NoEntry
                    /\ req'[r].ev.kind \in
                         {"CreateDirectoryOutputEvent", "WriteToFileOutputEvent"}]_vars

\* a CreateDirectory on an existing directory returned True and the file
\* that directory holds is still there with its content
C37_Witness ==
    \E r \in Slots :
        /\ Ended(req[r])
        /\ req[r].ev.kind = "CreateDirectoryOutputEvent"
        /\ req[r].result = "True"
        /\ req[r].before.is = "dir"
        /\ \E q \in DOMAIN files : Parent(q) = req[r].target /\ data[files[q]] # <<>>

\* the positions of a WriteFile between its first suspension and its end
InFlight == {"open", "acquire", "write", "release", "close", "unwind"}

\* C38: a call takes its base and its target from the path as it is when the
\* call is made; an assignment to the path changes no request and no file; and
\* a WriteFile in flight keeps its base and its target and creates or changes
\* the file at that target alone, wherever the path points by then
C38_KeepsItsBase ==
    [][/\ \A r \in Slots :
            /\ (calls' = calls + 1 /\ req'[r] # req[r] /\ IsFSOutputEvent(req'[r].ev))
               => /\ req'[r].base = _path
                  /\ req'[r].pc \in InFlight
                     => req'[r].target = resolve(joinpath(_path, req'[r].ev.path))
            /\ (calls' = calls /\ req[r].pc \in InFlight)
               => /\ req'[r].base = req[r].base
                  /\ req'[r].target = req[r].target
                  /\ (req'[r] # req[r] \/ hnd'[r] # hnd[r])
                     => \A q \in Named \cup NamedNext :
                           Entry(q)' # Entry(q) => q = req[r].target
       /\ _path' # _path
          => /\ req' = req /\ hnd' = hnd
             /\ dirs' = dirs /\ files' = files /\ data' = data]_vars

\* a WriteFile made under the base T is suspended, holding the lock on the
\* file it created, while the path is U: its file is outside the base
C38_Witness ==
    \E r \in Slots :
        /\ req[r].pc = "write"
        /\ req[r].base = T
        /\ _path = U
        /\ req[r].before = NoEntry
        /\ req[r].target \in DOMAIN files
        /\ ~Inside(req[r].target, _path)
        /\ hnd[r].lock = AcquireFlag

\* C39: the step in which a call returns False removes no regular file and
\* changes the content of none, and a call that returned False on a target
\* that was a regular file when it was made has left that file as it was
C39_FalseKeepsData ==
    /\ [][\A r \in Slots :
            (req'[r] # req[r] /\ Ended(req'[r]) /\ req'[r].result = "False")
            => \A q \in DOMAIN files : Entry(q)' = Entry(q)]_vars
    /\ [](\A r \in Slots :
            (Ended(req[r]) /\ req[r].result = "False" /\ req[r].before.is = "file")
            => Entry(req[r].target) = req[r].before)

\* a WriteFile that may not overwrite was rejected on an existing file, which
\* holds what it held
C39_Witness ==
    \E r \in Slots :
        /\ Ended(req[r])
        /\ req[r].ev.kind = "WriteToFileOutputEvent"
        /\ ~req[r].ev.may_overwrite /\ ~req[r].ev.append
        /\ req[r].result = "False"
        /\ req[r].before.is = "file"
        /\ req[r].before.val # <<>>
        /\ Entry(req[r].target) = req[r].before

====
